---------------------------- MODULE Spec2Model ----------------------------
(***************************************************************************)
(* A model of opencda/core/common/codriving_model_manager.py: the          *)
(* CodrivingModelManager that buffers per-vehicle trajectories, encodes    *)
(* them for the motion predictor and hands vehicles over to / back from    *)
(* predictor-driven control, one make_trajs call per simulation tick.      *)
(*                                                                         *)
(* Numbers.  Positions reported by SUMO are integer pairs.  Displacements  *)
(* predicted by the model are two-level numbers <<u, e>> standing for      *)
(* u + e * 1e-10, so that 1e-8 is <<0, 100>> and 1e-10 is <<0, 1>>; they   *)
(* are ordered lexicographically, which is the order of the reals as long  *)
(* as |e| stays far below 1e10.  Floating-point rounding is not modelled.  *)
(* Angles are multiples of 90 degrees; radians are counted in quarter      *)
(* turns (pi/2), so the rotation matrix has entries in {-1, 0, 1}.         *)
(***************************************************************************)
EXTENDS Integers, Sequences, FiniteSets, TLC

VARIABLES
  excluded_nodes,           \* self.excluded_nodes (ids of excluded nodes)
  sumo_cavs_ids,            \* self.sumo_cavs_ids
  carla_vmanagers,          \* self.carla_vmanagers (the vids registered)
  trajs,                    \* self.trajs, in insertion order
  mtp_controlled_vehicles,  \* self.mtp_controlled_vehicles
  traci_veh,                \* SUMO: state of each vehicle in the last tick
  x,                        \* make_trajs local: the feature matrix
  target_agent_ids,         \* make_trajs local: ids in row order
  predictions,              \* make_trajs local: the model's output rows
  model_calls,              \* the predictor calls of the last make_trajs
  dispatched,               \* the loop iterations of the last make_trajs
  events,                   \* the phases of the last make_trajs, in order
  outcome,                  \* how the last make_trajs ended
  entry,                    \* trajs, controlled set and ids stored so far
                            \* when it began
  ticks,                    \* number of make_trajs calls so far
  fn_call,                  \* the last direct call of a helper method:
                            \* its name, arguments and result
  current_cav_id,           \* VehicleManager.current_cav_id
  current_platoon_id,       \* VehicleManager.current_platoon_id
  current_unknown_id,       \* VehicleManager.current_unknown_id
  used_ids,                 \* VehicleManager.used_ids
  managers,                 \* self.vid of every VehicleManager whose
                            \* construction assigned one, in order
  vm_last                   \* the last construction: its arguments, how it
                            \* ended and the class attributes before it

vars == <<excluded_nodes, sumo_cavs_ids, carla_vmanagers, trajs,
          mtp_controlled_vehicles, traci_veh, x, target_agent_ids,
          predictions, model_calls, dispatched, events, outcome, entry,
          ticks, fn_call, current_cav_id, current_platoon_id,
          current_unknown_id, used_ids, managers, vm_last>>

\* The class attributes of VehicleManager and what the model records of its
\* constructions.
vm_vars == <<current_cav_id, current_platoon_id, current_unknown_id,
             used_ids, managers, vm_last>>

---------------------------------------------------------------------------
(* Bounds of the model *)

MaxTicks == 2
MaxStoreTicks == 3
MaxDeltaTicks == 1
MaxPairTicks == 1
MaxManagers == 3

---------------------------------------------------------------------------
(* Program constants *)

CONTROL_RADIUS == 50
INCLUSION_RADIUS == 65
PRED_STEPS == 30
LAST_LATERAL_LIMIT == 1
threshold == 10
force_value == 20

---------------------------------------------------------------------------
(* Two-level numbers u + e * 1e-10 *)

N(u) == <<u, 0>>
NAdd(a, b) == <<a[1] + b[1], a[2] + b[2]>>
NNeg(a) == <<-a[1], -a[2]>>
NSub(a, b) == NAdd(a, NNeg(b))
NScale(k, a) == <<k * a[1], k * a[2]>>
NLt(a, b) == a[1] < b[1] \/ (a[1] = b[1] /\ a[2] < b[2])
NLe(a, b) == a = b \/ NLt(a, b)
NAbs(a) == IF NLt(a, N(0)) THEN NNeg(a) ELSE a
NSign(a) == IF NLt(a, N(0)) THEN -1 ELSE IF a = N(0) THEN 0 ELSE 1
\* Python's max(a, b): b only when b > a.
NMax(a, b) == IF NLt(a, b) THEN b ELSE a

\* Squares of two-level numbers are three-level: u^2 + 2ue*1e-10 + e^2*1e-20.
SqNum(a) == <<a[1] * a[1], 2 * a[1] * a[2], a[2] * a[2]>>
Sq3Add(p, q) == <<p[1] + q[1], p[2] + q[2], p[3] + q[3]>>
Sq3Lt(p, q) ==
  \/ p[1] < q[1]
  \/ p[1] = q[1] /\ p[2] < q[2]
  \/ p[1] = q[1] /\ p[2] = q[2] /\ p[3] < q[3]
\* Squared Euclidean distance of two points with two-level coordinates.
SqDistNum(p, q) == Sq3Add(SqNum(NSub(p[1], q[1])), SqNum(NSub(p[2], q[2])))

\* Squared Euclidean norm of an integer vector (np.linalg.norm, squared).
SqNorm(v) == v[1] * v[1] + v[2] * v[2]


---------------------------------------------------------------------------
(* The static world handed to __init__ *)

\* self.nodes: the control nodes, in the order given to the constructor.
nodes ==
  << [id |-> "A", coord |-> <<0, 0>>],
     [id |-> "B", coord |-> <<200, 0>>] >>

\* self.yaw_dict: route -> rows (x, y, yaw in degrees), as unpickled.
yaw_dict_routes == {"left_up", "left_down"}
yaw_dict(route) ==
  IF route = "left_up"
    THEN << <<30, 0, 90>>, <<30, 40, 180>>, <<190, 0, 270>> >>
    ELSE << <<0, 0, 180>>, <<40, 0, 0>>, <<200, 0, 90>> >>

\* self._get_nearest_node: np.argmin gives the first index of the minimum.
get_nearest_node(pos) ==
  LET d(i) == SqNorm(<<nodes[i].coord[1] - pos[1], nodes[i].coord[2] - pos[2]>>)
      k == CHOOSE i \in 1..Len(nodes) :
             \A j \in 1..Len(nodes) : d(i) < d(j) \/ (d(i) = d(j) /\ i <= j)
  IN  nodes[k]

\* Faulty variant: the exclusion list is ignored.
nearest_excluded_never(excl, pos) == FALSE

\* Faulty variant: the first node is tested instead of the nearest one.
nearest_excluded_first_node(excl, pos) ==
  excl # {} /\ nodes[1].id \in excl

\* self.excluded_nodes and nearest_node in self.excluded_nodes
nearest_excluded(excl, pos) ==
  excl # {} /\ get_nearest_node(pos).id \in excl

\* self._is_carla_id: some registered vehicle manager has this vid.
is_carla_id(vms, vid) == \E vm \in vms : vm = vid

\* self._get_vmanager_by_vid: the manager, or "None".
get_vmanager_by_vid(vms, vid) ==
  IF \E vm \in vms : vm = vid THEN CHOOSE vm \in vms : vm = vid ELSE "None"

---------------------------------------------------------------------------
(* Strings *)

\* str.split("_"): the tokens between underscores (always at least one).
RECURSIVE split_rec(_, _, _)
split_rec(s, i, cur) ==
  IF i > Len(s) THEN <<cur>>
  ELSE IF SubSeq(s, i, i) = "_" THEN <<cur>> \o split_rec(s, i + 1, "")
  ELSE split_rec(s, i + 1, cur \o SubSeq(s, i, i))
split(s) == split_rec(s, 1, "")

\* "_".join(tokens)
RECURSIVE join(_)
join(toks) ==
  IF Len(toks) = 0 THEN ""
  ELSE IF Len(toks) = 1 THEN toks[1]
  ELSE toks[1] \o "_" \o join(Tail(toks))

---------------------------------------------------------------------------
(* Intention and heading *)

\* Faulty variant: the two turns out of "down" are exchanged.
turn_table_down_mirrored(from_path, to_path) ==
  IF from_path = "left" THEN
    IF to_path = "right" THEN "straight"
    ELSE IF to_path = "up" THEN "left"
    ELSE IF to_path = "down" THEN "right"
    ELSE "raise"
  ELSE IF from_path = "right" THEN
    IF to_path = "left" THEN "straight"
    ELSE IF to_path = "up" THEN "right"
    ELSE IF to_path = "down" THEN "left"
    ELSE "raise"
  ELSE IF from_path = "up" THEN
    IF to_path = "down" THEN "straight"
    ELSE IF to_path = "left" THEN "right"
    ELSE IF to_path = "right" THEN "left"
    ELSE "raise"
  ELSE IF from_path = "down" THEN
    IF to_path = "up" THEN "straight"
    ELSE IF to_path = "right" THEN "left"
    ELSE IF to_path = "left" THEN "right"
    ELSE "raise"
  ELSE "raise"

\* The turn table of get_intention_from_vehicle_id; "raise" where the chain
\* of ifs falls through to the final raise.
turn_table(from_path, to_path) ==
  IF from_path = "left" THEN
    IF to_path = "right" THEN "straight"
    ELSE IF to_path = "up" THEN "left"
    ELSE IF to_path = "down" THEN "right"
    ELSE "raise"
  ELSE IF from_path = "right" THEN
    IF to_path = "left" THEN "straight"
    ELSE IF to_path = "up" THEN "right"
    ELSE IF to_path = "down" THEN "left"
    ELSE "raise"
  ELSE IF from_path = "up" THEN
    IF to_path = "down" THEN "straight"
    ELSE IF to_path = "left" THEN "right"
    ELSE IF to_path = "right" THEN "left"
    ELSE "raise"
  ELSE IF from_path = "down" THEN
    IF to_path = "up" THEN "straight"
    ELSE IF to_path = "right" THEN "right"
    ELSE IF to_path = "left" THEN "left"
    ELSE "raise"
  ELSE "raise"

\* Faulty variant: an id that does not resolve gives "null", no exception.
get_intention_or_null(vms, vehicle_id) ==
  IF is_carla_id(vms, vehicle_id) THEN turn_table("left", "down")
  ELSE LET toks == split(vehicle_id)
       IN  IF Len(toks) < 2 \/ turn_table(toks[1], toks[2]) = "raise"
             THEN "null"
             ELSE turn_table(toks[1], toks[2])

\* get_intention_from_vehicle_id: the intention, or "raise" when the id has
\* fewer than two tokens (the unpacking fails) or the table has no entry.
get_intention_from_vehicle_id(vms, vehicle_id) ==
  IF is_carla_id(vms, vehicle_id) THEN turn_table("left", "down")
  ELSE LET toks == split(vehicle_id)
       IN  IF Len(toks) < 2 THEN "raise" ELSE turn_table(toks[1], toks[2])

\* np.deg2rad on multiples of 90 degrees, in quarter turns.
deg2rad(deg) == deg \div 90

\* Faulty variant: the route is taken from the id for every vehicle.
get_yaw_by_id(vms, vehicle_id, pos) ==
  LET toks == split(vehicle_id)
      route == join(SubSeq(toks, 1, Len(toks) - 1))
  IN  IF route \notin yaw_dict_routes THEN 0
      ELSE LET yaws == yaw_dict(route)
               d(i) == SqDistNum(pos, <<N(yaws[i][1]), N(yaws[i][2])>>)
               k == CHOOSE i \in 1..Len(yaws) :
                      \A j \in 1..Len(yaws) :
                        Sq3Lt(d(i), d(j)) \/ (d(i) = d(j) /\ i <= j)
           IN  yaws[k][3]

\* Faulty variant: the last of several nearest samples is taken.
get_yaw_last_on_ties(vms, vehicle_id, pos) ==
  LET vid == IF is_carla_id(vms, vehicle_id) THEN "left_down_8" ELSE vehicle_id
      toks == split(vid)
      route == join(SubSeq(toks, 1, Len(toks) - 1))
  IN  IF route \notin yaw_dict_routes THEN 0
      ELSE LET yaws == yaw_dict(route)
               d(i) == SqDistNum(pos, <<N(yaws[i][1]), N(yaws[i][2])>>)
               k == CHOOSE i \in 1..Len(yaws) :
                      \A j \in 1..Len(yaws) :
                        Sq3Lt(d(i), d(j)) \/ (d(i) = d(j) /\ i >= j)
           IN  yaws[k][3]

\* get_yaw: the heading (degrees) of the nearest sample of the id's route;
\* 0 when the route is unknown.  pos has two-level coordinates.
get_yaw(vms, vehicle_id, pos) ==
  LET vid == IF is_carla_id(vms, vehicle_id) THEN "left_down_8" ELSE vehicle_id
      toks == split(vid)
      route == join(SubSeq(toks, 1, Len(toks) - 1))
  IN  IF route \notin yaw_dict_routes THEN 0
      ELSE LET yaws == yaw_dict(route)
               d(i) == SqDistNum(pos, <<N(yaws[i][1]), N(yaws[i][2])>>)
               k == CHOOSE i \in 1..Len(yaws) :
                      \A j \in 1..Len(yaws) :
                        Sq3Lt(d(i), d(j)) \/ (d(i) = d(j) /\ i <= j)
           IN  yaws[k][3]

\* Faulty variant: the positions of "straight" and "right" are exchanged.
get_intention_vector_swapped(intention) ==
  IF intention = "left" THEN <<1, 0, 0>>
  ELSE IF intention = "straight" THEN <<0, 0, 1>>
  ELSE IF intention = "right" THEN <<0, 1, 0>>
  ELSE IF intention = "null" THEN <<0, 0, 0>>
  ELSE <<>>

\* get_intention_vector: the one-hot row, or <<>> for NotImplementedError.
get_intention_vector(intention) ==
  IF intention = "left" THEN <<1, 0, 0>>
  ELSE IF intention = "straight" THEN <<0, 1, 0>>
  ELSE IF intention = "right" THEN <<0, 0, 1>>
  ELSE IF intention = "null" THEN <<0, 0, 0>>
  ELSE <<>>

---------------------------------------------------------------------------
(* The trajectory store: a dict in insertion order, as a sequence of       *)
(* [id, traj] items.  An entry is                                          *)
(* <<rel_x, rel_y, speed, yaw_rad, yaw_deg_sumo, intention>>.              *)

Range(seq) == {seq[i] : i \in 1..Len(seq)}
TrajKeys(t) == {t[i].id : i \in 1..Len(t)}
TrajIndex(t, vid) == CHOOSE i \in 1..Len(t) : t[i].id = vid
TrajOf(t, vid) == t[TrajIndex(t, vid)].traj

\* Faulty variant: later entries get the default intention "straight".
entry_intention_default(vms, vehicle_id, trajectory) ==
  IF Len(trajectory) = 0
    THEN get_intention_from_vehicle_id(vms, vehicle_id)
    ELSE "straight"

\* The intention of the entry appended by update_trajs: resolved from the id
\* on the first timestep, copied from the last entry afterwards.
entry_intention(vms, vehicle_id, trajectory) ==
  IF Len(trajectory) = 0
    THEN get_intention_from_vehicle_id(vms, vehicle_id)
    ELSE trajectory[Len(trajectory)][6]

\* One iteration of the first loop of update_trajs for ids[i], then the rest.
\* A raise leaves the store as mutated so far.
RECURSIVE update_loop(_, _, _, _, _, _)
update_loop(t, ids, veh, vms, excl, i) ==
  IF i > Len(ids) THEN [trajs |-> t, raised |-> FALSE]
  ELSE
    LET vehicle_id == ids[i]
        t1 == IF vehicle_id \in TrajKeys(t) THEN t
              ELSE Append(t, [id |-> vehicle_id, traj |-> <<>>])
        position == veh[vehicle_id].pos
        nearest_node == get_nearest_node(position)
    IN  IF nearest_excluded(excl, position)
          THEN update_loop(t1, ids, veh, vms, excl, i + 1)
          ELSE
            LET speed == veh[vehicle_id].speed
                yaw_deg_sumo == veh[vehicle_id].angle
                yaw_rad == deg2rad(get_yaw(vms, vehicle_id,
                                           <<N(position[1]), N(position[2])>>))
                rel_x == position[1] - nearest_node.coord[1]
                rel_y == position[2] - nearest_node.coord[2]
                k == TrajIndex(t1, vehicle_id)
                intention == entry_intention(vms, vehicle_id, t1[k].traj)
                t2 == [t1 EXCEPT ![k].traj =
                         Append(@, <<rel_x, rel_y, speed, yaw_rad,
                                     yaw_deg_sumo, intention>>)]
            IN  IF intention = "raise"
                  THEN [trajs |-> t1, raised |-> TRUE]
                  ELSE update_loop(t2, ids, veh, vms, excl, i + 1)

\* Faulty variant: trajectories of vehicles that left are kept.
remove_left_never(t, ids) == t

\* The second loop of update_trajs: drop the vehicles that left the scene.
remove_left(t, ids) ==
  LET Keep(item) == item.id \in Range(ids) IN SelectSeq(t, Keep)

\* update_trajs: [trajs, raised].
update_trajs(t, ids, veh, vms, excl) ==
  LET r == update_loop(t, ids, veh, vms, excl, 1)
  IN  IF r.raised THEN r
      ELSE [trajs |-> remove_left(r.trajs, ids), raised |-> FALSE]

---------------------------------------------------------------------------
(* Feature encoding *)

\* Faulty variant: the encoder filters with the control radius.
within_inclusion_control_radius(last_position) ==
  SqNorm(<<last_position[1], last_position[2]>>)
    < CONTROL_RADIUS * CONTROL_RADIUS

\* Faulty variant: every agent of the store is returned.
within_inclusion_always(last_position) == TRUE

\* Whether encoding_scenario_features keeps an agent whose latest entry is
\* last_position.
within_inclusion(last_position) ==
  SqNorm(<<last_position[1], last_position[2]>>)
    < INCLUSION_RADIUS * INCLUSION_RADIUS

\* Faulty variant: the ids are collected in the reverse order of the rows.
RECURSIVE encode_loop_ids_reversed(_, _, _, _)
encode_loop_ids_reversed(t, i, features, ids) ==
  IF i > Len(t) THEN [raised |-> FALSE, x |-> features, ids |-> ids]
  ELSE
    LET trajectory == t[i].traj IN
    IF Len(trajectory) = 0
      THEN [raised |-> TRUE, x |-> <<>>, ids |-> <<>>]
      ELSE
        LET last_position == trajectory[Len(trajectory)] IN
        IF within_inclusion(last_position)
          THEN
            LET motion_features == SubSeq(last_position, 1, 4)
                intention_vector == get_intention_vector(last_position[6])
            IN  IF intention_vector = <<>>
                  THEN [raised |-> TRUE, x |-> <<>>, ids |-> <<>>]
                  ELSE encode_loop_ids_reversed(t, i + 1,
                         Append(features, motion_features \o intention_vector),
                         <<t[i].id>> \o ids)
          ELSE encode_loop_ids_reversed(t, i + 1, features, ids)

\* The loop of encoding_scenario_features; trajectory[-1] of an empty list
\* and an unknown intention raise.
RECURSIVE encode_loop(_, _, _, _)
encode_loop(t, i, features, ids) ==
  IF i > Len(t) THEN [raised |-> FALSE, x |-> features, ids |-> ids]
  ELSE
    LET trajectory == t[i].traj IN
    IF Len(trajectory) = 0
      THEN [raised |-> TRUE, x |-> <<>>, ids |-> <<>>]
      ELSE
        LET last_position == trajectory[Len(trajectory)] IN
        IF within_inclusion(last_position)
          THEN
            LET motion_features == SubSeq(last_position, 1, 4)
                intention_vector == get_intention_vector(last_position[6])
            IN  IF intention_vector = <<>>
                  THEN [raised |-> TRUE, x |-> <<>>, ids |-> <<>>]
                  ELSE encode_loop(t, i + 1,
                         Append(features, motion_features \o intention_vector),
                         Append(ids, t[i].id))
          ELSE encode_loop(t, i + 1, features, ids)

\* encoding_scenario_features: [raised, x, ids]; x is a sequence of 7-column
\* rows, empty for np.empty((0, 7)).
encoding_scenario_features(t) == encode_loop(t, 1, <<>>, <<>>)

---------------------------------------------------------------------------
(* Frame conversion *)

\* Faulty variant: 90 degrees are added to the heading.
sumo2carla_row_plus(row) ==
  [row EXCEPT ![2] = -row[2], ![4] = row[4] + deg2rad(90)]

\* One state row: y negated, heading minus 90 degrees.
sumo2carla_row(row) ==
  [row EXCEPT ![2] = -row[2], ![4] = row[4] - deg2rad(90)]

\* transform_sumo2carla on an array of rank ndim: [raised, data].
transform_sumo2carla(ndim, data) ==
  IF ndim = 1 THEN [raised |-> FALSE, data |-> sumo2carla_row(data)]
  ELSE IF ndim = 2
    THEN [raised |-> FALSE,
          data |-> [r \in 1..Len(data) |-> sumo2carla_row(data[r])]]
  ELSE [raised |-> TRUE, data |-> data]

\* cos and sin of k quarter turns.
CosQ(k) == LET m == k % 4 IN IF m = 0 THEN 1 ELSE IF m = 2 THEN -1 ELSE 0
SinQ(k) == LET m == k % 4 IN IF m = 1 THEN 1 ELSE IF m = 3 THEN -1 ELSE 0

\* Faulty variant: the rotation by yaw, without the offset.
rotation_matrix_back_raw(yaw) ==
  << <<CosQ(yaw), -SinQ(yaw)>>, <<SinQ(yaw), CosQ(yaw)>> >>

\* rotation_matrix_back: the rotation by -pi/2 + yaw.
rotation_matrix_back(yaw) ==
  LET a == yaw - 1
  IN  << <<CosQ(a), -SinQ(a)>>, <<SinQ(a), CosQ(a)>> >>

\* rotation @ v for a 2x2 integer matrix and a two-level vector.
MatVec(m, v) ==
  << NAdd(NScale(m[1][1], v[1]), NScale(m[1][2], v[2])),
     NAdd(NScale(m[2][1], v[1]), NScale(m[2][2], v[2])) >>

---------------------------------------------------------------------------
(* Prediction deltas *)

LATERAL_FLOOR == <<0, 100>>   \* 1e-8
FORWARD_FLOOR == <<0, 1>>     \* 1e-10

\* Faulty variant: the guard compares with < instead of <=.
clamp_first_step_strict(local_delta, last_delta) ==
  IF NLt(last_delta[2], N(LAST_LATERAL_LIMIT))
    THEN <<FORWARD_FLOOR, LATERAL_FLOOR>>
    ELSE <<local_delta[1], NMax(LATERAL_FLOOR, local_delta[2])>>

\* Faulty variant: a firing guard replaces the lateral component only.
clamp_first_step_lateral_only(local_delta, last_delta) ==
  IF NLe(last_delta[2], N(LAST_LATERAL_LIMIT))
    THEN <<local_delta[1], LATERAL_FLOOR>>
    ELSE <<local_delta[1], NMax(LATERAL_FLOOR, local_delta[2])>>

\* The degenerate-value guard on the first predicted step <<forward, lateral>>
\* given the last predicted step.
clamp_first_step(local_delta, last_delta) ==
  IF NLe(last_delta[2], N(LAST_LATERAL_LIMIT))
    THEN <<FORWARD_FLOOR, LATERAL_FLOOR>>
    ELSE <<local_delta[1], NMax(LATERAL_FLOOR, local_delta[2])>>

\* The local first-step delta used for row idx: pred_delta[0] after the guard,
\* which reads pred_delta[-1].
local_delta_of(pred_delta) ==
  clamp_first_step(pred_delta[1], pred_delta[PRED_STEPS])

\* rotation @ local_delta, then the sign of the second component inverted.
global_delta_of(yaw, local_delta) ==
  LET g == MatVec(rotation_matrix_back(yaw), local_delta)
  IN  <<g[1], NNeg(g[2])>>

\* np.where(np.abs(c) <= threshold, np.sign(c) * force_value, c) on one
\* component.
force_component(c) ==
  IF NLe(NAbs(c), N(threshold)) THEN N(NSign(c) * force_value) ELSE c

\* Faulty variant: no deadband.
force_small_none(global_delta) == global_delta

\* The deadband on both components.
force_small(global_delta) ==
  <<force_component(global_delta[1]), force_component(global_delta[2])>>

---------------------------------------------------------------------------
(* Backend commands.  Every command is a record of the same shape.         *)

NoLoc == <<>>

SetDestination(vid, start, end, clean, end_reset) ==
  [cmd |-> "set_destination", vid |-> vid, start |-> start, end |-> end,
   clean |-> clean, end_reset |-> end_reset, angle |-> 0, keepRoute |-> 0,
   ok |-> TRUE]

UpdateInfoV2x(vid) ==
  [cmd |-> "update_info_v2x", vid |-> vid, start |-> NoLoc, end |-> NoLoc,
   clean |-> FALSE, end_reset |-> FALSE, angle |-> 0, keepRoute |-> 0,
   ok |-> TRUE]

\* ok is FALSE when the call raised traci.TraCIException.
MoveToXY(vid, next_x, next_y, angle, ok) ==
  [cmd |-> "moveToXY", vid |-> vid, start |-> NoLoc,
   end |-> <<next_x, next_y>>, clean |-> FALSE, end_reset |-> FALSE,
   angle |-> angle, keepRoute |-> 2, ok |-> ok]

\* cav.agent.end_waypoint.transform.location of a vehicle manager.
end_location(vid) == <<N(500), N(500), N(0)>>

\* What one iteration of the loop of make_trajs did: the branch taken, the
\* deltas it computed and the commands it issued, in order.
Row(idx, vid, branch, local_delta, global_delta, used_delta, cmds) ==
  [idx |-> idx, vid |-> vid, branch |-> branch, local_delta |-> local_delta,
   global_delta |-> global_delta, used_delta |-> used_delta, cmds |-> cmds]

---------------------------------------------------------------------------
(* The per-agent loop of make_trajs *)

\* The body of the branch distance_to_center < CONTROL_RADIUS for row idx.
\* loc: the location CARLA reports for each vehicle manager; fails: the ids
\* whose moveToXY raises TraCIException.
control_row(idx, vehicle_id, curr_pos, yaw, pred_delta, vms, loc, fails) ==
  LET local_delta == local_delta_of(pred_delta)
      global_delta == global_delta_of(yaw, local_delta)
  IN
  IF is_carla_id(vms, vehicle_id)
    THEN
      LET cav == get_vmanager_by_vid(vms, vehicle_id) IN
      IF cav = "None"
        THEN Row(idx, vehicle_id, "control", local_delta, global_delta,
                 <<>>, <<>>)
        ELSE
          LET pos == loc[cav]
              forced == force_small(global_delta)
              next_loc == << NAdd(N(pos[1]), forced[1]),
                             NSub(N(pos[2]), forced[2]),
                             N(pos[3]) >>
          IN  Row(idx, vehicle_id, "control", local_delta, global_delta,
                  forced,
                  << SetDestination(cav,
                       <<N(pos[1]), N(pos[2]), N(pos[3])>>, next_loc,
                       TRUE, FALSE),
                     UpdateInfoV2x(cav) >>)
    ELSE
      LET next_x == NAdd(N(curr_pos[1]), global_delta[1])
          next_y == NAdd(N(curr_pos[2]), global_delta[2])
          angle == get_yaw(vms, vehicle_id, <<next_x, next_y>>)
      IN  Row(idx, vehicle_id, "control", local_delta, global_delta,
              global_delta,
              << MoveToXY(vehicle_id, next_x, next_y, angle,
                          vehicle_id \notin fails) >>)

\* Faulty variant: the restore command keeps end_reset=False.
restore_row_keeps_route(idx, vehicle_id, vms, loc) ==
  IF is_carla_id(vms, vehicle_id)
    THEN LET cav == get_vmanager_by_vid(vms, vehicle_id)
             pos == loc[cav]
         IN  Row(idx, vehicle_id, "restore", <<>>, <<>>, <<>>,
                 << SetDestination(cav, <<N(pos[1]), N(pos[2]), N(pos[3])>>,
                                   end_location(cav), TRUE, FALSE) >>)
    ELSE Row(idx, vehicle_id, "restore", <<>>, <<>>, <<>>, <<>>)

\* The body of the branch elif vehicle_id in self.mtp_controlled_vehicles.
restore_row(idx, vehicle_id, vms, loc) ==
  IF is_carla_id(vms, vehicle_id)
    THEN LET cav == get_vmanager_by_vid(vms, vehicle_id)
             pos == loc[cav]
         IN  Row(idx, vehicle_id, "restore", <<>>, <<>>, <<>>,
                 << SetDestination(cav, <<N(pos[1]), N(pos[2]), N(pos[3])>>,
                                   end_location(cav), TRUE, TRUE) >>)
    ELSE Row(idx, vehicle_id, "restore", <<>>, <<>>, <<>>, <<>>)

\* Faulty variant: the distance is taken to the first node, not the nearest.
within_control_radius_first_node(curr_pos) ==
  LET control_center == nodes[1].coord
  IN  SqNorm(<<curr_pos[1] - control_center[1],
               curr_pos[2] - control_center[2]>>)
        < CONTROL_RADIUS * CONTROL_RADIUS

\* Whether the loop takes the control branch at position curr_pos.
within_control_radius(curr_pos) ==
  LET control_center == get_nearest_node(curr_pos).coord
  IN  SqNorm(<<curr_pos[1] - control_center[1],
               curr_pos[2] - control_center[2]>>)
        < CONTROL_RADIUS * CONTROL_RADIUS

\* One iteration, for row idx (from 1), on st = [controlled, rows].
dispatch_row(st, idx, ids, xt, preds, veh, vms, excl, loc, fails) ==
  LET vehicle_id == ids[idx]
      curr_pos == veh[vehicle_id].pos
  IN
  IF nearest_excluded(excl, curr_pos)
    THEN [st EXCEPT !.rows =
            Append(@, Row(idx, vehicle_id, "excluded", <<>>, <<>>, <<>>,
                          <<>>))]
  ELSE IF within_control_radius(curr_pos)
    THEN [controlled |-> st.controlled \cup {vehicle_id},
          rows |-> Append(st.rows,
                     control_row(idx, vehicle_id, curr_pos, xt[idx][4],
                                 preds[idx], vms, loc, fails))]
  ELSE IF vehicle_id \in st.controlled
    THEN [controlled |-> st.controlled \ {vehicle_id},
          rows |-> Append(st.rows, restore_row(idx, vehicle_id, vms, loc))]
  ELSE [st EXCEPT !.rows =
          Append(@, Row(idx, vehicle_id, "none", <<>>, <<>>, <<>>, <<>>))]

\* Faulty variant: a failed moveToXY ends the loop.
RECURSIVE dispatch_loop_stops_on_failure(_, _, _, _, _, _, _, _, _, _)
dispatch_loop_stops_on_failure(st, idx, ids, xt, preds, veh, vms, excl, loc, fails) ==
  IF idx > Len(ids) THEN st
  ELSE IF /\ st.rows # <<>>
          /\ \E c \in 1..Len(st.rows[Len(st.rows)].cmds) :
               ~st.rows[Len(st.rows)].cmds[c].ok
    THEN st
  ELSE dispatch_loop_stops_on_failure(
         dispatch_row(st, idx, ids, xt, preds, veh, vms, excl, loc, fails),
         idx + 1, ids, xt, preds, veh, vms, excl, loc, fails)

\* for idx in range(num_agents)
RECURSIVE dispatch_loop(_, _, _, _, _, _, _, _, _, _)
dispatch_loop(st, idx, ids, xt, preds, veh, vms, excl, loc, fails) ==
  IF idx > Len(ids) THEN st
  ELSE dispatch_loop(
         dispatch_row(st, idx, ids, xt, preds, veh, vms, excl, loc, fails),
         idx + 1, ids, xt, preds, veh, vms, excl, loc, fails)

\* Faulty variant: the columns selected are 0, 1, 3, 4, 5.
model_input_with_heading(xt) ==
  [r \in 1..Len(xt) |-> <<xt[r][1], xt[r][2], xt[r][4], xt[r][5], xt[r][6]>>]

\* x_tensor[:, [0, 1, 4, 5, 6]]
model_input(xt) ==
  [r \in 1..Len(xt) |-> <<xt[r][1], xt[r][2], xt[r][5], xt[r][6], xt[r][7]>>]

\* [[i, j] for i in range(n) for j in range(n)], before the transpose.
edge_index(num_agents) ==
  [k \in 1..(num_agents * num_agents) |->
     <<(k - 1) \div num_agents, (k - 1) % num_agents>>]

---------------------------------------------------------------------------
(* make_trajs *)

\* Faulty variant: no early return, the model is called on an empty matrix.
predictor_calls_always(num_agents, xt) ==
  << [input |-> model_input(xt), edges |-> edge_index(num_agents)] >>

\* The predictor calls of one make_trajs: none after the early return on an
\* empty feature matrix, else one, on columns 0, 1, 4, 5, 6 of the converted
\* matrix and the fully connected graph.
predictor_calls(num_agents, xt) ==
  IF num_agents = 0 THEN <<>>
  ELSE << [input |-> model_input(xt), edges |-> edge_index(num_agents)] >>

\* Faulty variant: the rows are dispatched before the model is called.
call_trace_rows_first(how_far, num_agents) ==
  IF how_far = "update" THEN <<"update_trajs">>
  ELSE IF how_far = "encode" \/ num_agents = 0
    THEN <<"update_trajs", "encoding_scenario_features">>
  ELSE <<"update_trajs", "encoding_scenario_features",
         "transform_sumo2carla">>
       \o [k \in 1..num_agents |-> "row"] \o <<"model">>

\* The phases a make_trajs call goes through, in program order; how_far says
\* where it stopped: "update" / "encode" (a raise inside), else the loop ran
\* over num_agents rows.
call_trace(how_far, num_agents) ==
  IF how_far = "update" THEN <<"update_trajs">>
  ELSE IF how_far = "encode" \/ num_agents = 0
    THEN <<"update_trajs", "encoding_scenario_features">>
  ELSE <<"update_trajs", "encoding_scenario_features",
         "transform_sumo2carla", "model">>
       \o [k \in 1..num_agents |-> "row"]

\* Faulty variant: the feature rows are views of the stored entries, so the
\* in-place conversion writes the latest entry of every encoded agent.
store_after_writes_aliased(t, ids, xt) ==
  [i \in 1..Len(t) |->
     IF \E k \in 1..Len(ids) : ids[k] = t[i].id
       THEN LET k == CHOOSE k \in 1..Len(ids) : ids[k] = t[i].id
                n == Len(t[i].traj)
            IN  [t[i] EXCEPT !.traj[n] =
                   SubSeq(xt[k], 1, 4) \o SubSeq(t[i].traj[n], 5, 6)]
       ELSE t[i]]

\* The store t after the in-place writes of a call, to the feature matrix
\* (transform_sumo2carla) and to local_delta (the guard): the entries are
\* tuples, the feature rows are built from them by np.array, np.concatenate
\* and np.vstack, which allocate, and local_delta is a view of the
\* predictions, so no write reaches the store.
store_after_writes(t, ids, xt) == t

\* What a call that stops before the loop leaves behind.
Stops(how, how_far) ==
  /\ x' = <<>>
  /\ target_agent_ids' = <<>>
  /\ predictions' = <<>>
  /\ model_calls' = predictor_calls(0, <<>>)
  /\ dispatched' = <<>>
  /\ events' = call_trace(how_far, 0)
  /\ outcome' = how
  /\ UNCHANGED mtp_controlled_vehicles

\* One call of make_trajs on the SUMO vehicle list ids with states veh and
\* the vehicle managers vms; the model answers preds, CARLA reports loc and
\* moveToXY fails for the ids in fails.  An exception that leaves make_trajs
\* reaches the simulation loop, which does not call again.
make_trajs(MaxCalls, IdLists, VehStates, VmSets, PredRows, CarlaLocs, FailSets) ==
  /\ ticks < MaxCalls
  /\ outcome # "raised"
  /\ \E ids \in IdLists, vms \in VmSets :
     \E veh \in [Range(ids) -> VehStates] :
     \E ut \in {update_trajs(trajs, ids, veh, vms, excluded_nodes)} :
     \E enc \in {encoding_scenario_features(ut.trajs)} :
     \E num_agents \in {Len(enc.x)} :
       /\ sumo_cavs_ids' = ids
       /\ carla_vmanagers' = vms
       /\ traci_veh' = veh
       /\ entry' = [trajs |-> trajs, controlled |-> mtp_controlled_vehicles,
                    seen |-> entry.seen \cup TrajKeys(trajs)]
       /\ ticks' = ticks + 1
       /\ trajs' = IF ut.raised \/ enc.raised \/ num_agents = 0
                    THEN ut.trajs
                    ELSE store_after_writes(ut.trajs, enc.ids,
                           transform_sumo2carla(2, enc.x).data)
       /\ UNCHANGED <<excluded_nodes, fn_call, vm_vars>>
       /\ IF ut.raised THEN Stops("raised", "update")
          ELSE IF enc.raised THEN Stops("raised", "encode")
          ELSE IF num_agents = 0 THEN Stops("returned", "loop")
          ELSE
            \E preds \in [1..num_agents -> PredRows],
               loc \in [vms -> CarlaLocs],
               fails \in {f \in FailSets : f \subseteq Range(enc.ids)} :
            \E xt \in {transform_sumo2carla(2, enc.x).data} :
            \E st \in {dispatch_loop(
                         [controlled |-> mtp_controlled_vehicles,
                          rows |-> <<>>],
                         1, enc.ids, xt, preds, veh, vms, excluded_nodes,
                         loc, fails)} :
              /\ x' = xt
              /\ target_agent_ids' = enc.ids
              /\ predictions' = preds
              /\ model_calls' = predictor_calls(num_agents, xt)
              /\ dispatched' = st.rows
              /\ events' = call_trace("loop", num_agents)
              /\ outcome' = "returned"
              /\ mtp_controlled_vehicles' = st.controlled

---------------------------------------------------------------------------
(* Environments *)

\* A prediction row: PRED_STEPS steps <<forward, lateral>>.
MkPred(first, mid, last) ==
  [k \in 1..PRED_STEPS |->
     IF k = 1 THEN first ELSE IF k = PRED_STEPS THEN last ELSE mid]

\* The simulation: two vehicles, one driven by SUMO and one that a CARLA
\* vehicle manager may host, over two ticks.
IdLists ==
  { <<>>, <<"left_up_0">>, <<"cav-1">>, <<"left_up_0", "cav-1">> }

\* Inside the control radius of A; at exactly CONTROL_RADIUS from A; at
\* exactly INCLUSION_RADIUS from A; next to B.
VehStates ==
  { [pos |-> <<30, 0>>,  speed |-> 5, angle |-> 90],
    [pos |-> <<30, 40>>, speed |-> 3, angle |-> 180],
    [pos |-> <<25, 60>>, speed |-> 0, angle |-> 0],
    [pos |-> <<190, 0>>, speed |-> 7, angle |-> 270] }

VmSets == { {}, {"cav-1"} }

PredRows ==
  { MkPred(<<N(0), N(15)>>, <<N(9), N(9)>>, <<N(2), N(40)>>) }

CarlaLocs == { <<7, -3, 1>> }

FailSets == { {} }

\* The trajectory store over more ticks: at most one vehicle in the scene.
StoreIdLists == { <<>>, <<"left_up_0">>, <<"cav-1">> }

\* The prediction arithmetic: one vehicle, one tick, many predictions.
DeltaIdLists == { <<"left_up_0">>, <<"cav-1">> }

DeltaVehStates ==
  { [pos |-> <<30, 0>>,  speed |-> 5, angle |-> 90],
    [pos |-> <<20, 30>>, speed |-> 3, angle |-> 180],
    [pos |-> <<190, 0>>, speed |-> 7, angle |-> 270] }

DeltaPredRows ==
  { MkPred(<<N(3), N(4)>>,     <<N(9), N(9)>>, <<N(0), N(1)>>),
    MkPred(<<N(3), N(4)>>,     <<N(9), N(9)>>, <<N(0), <<1, 1>> >>),
    MkPred(<<N(0), N(15)>>,    <<N(9), N(9)>>, <<N(2), N(40)>>),
    MkPred(<<N(10), N(30)>>,   <<N(9), N(9)>>, <<N(2), N(40)>>),
    MkPred(<<N(-12), <<0, 50>> >>, <<N(9), N(9)>>, <<N(2), N(40)>>),
    MkPred(<<N(5), N(-7)>>,    <<N(9), N(9)>>, <<N(1), N(2)>>),
    MkPred(<<N(11), N(-20)>>,  <<N(9), N(9)>>, <<N(0), N(-3)>>),
    MkPred(<<N(-25), N(11)>>,  <<N(9), N(9)>>, <<N(0), N(30)>>) }

DeltaCarlaLocs == { <<7, -3, 1>>, <<0, 0, 0>> }

DeltaFailSets == { {}, {"left_up_0"} }

\* Row order: two vehicles in the scene in one tick, each with its own
\* prediction, and moveToXY failing for the first of them.
PairIdLists ==
  { <<"left_up_0", "cav-1">>, <<"left_up_0", "left_down_1">> }

PairVehStates ==
  { [pos |-> <<30, 0>>,  speed |-> 5, angle |-> 90],
    [pos |-> <<30, 40>>, speed |-> 3, angle |-> 180],
    [pos |-> <<190, 0>>, speed |-> 7, angle |-> 270] }

PairPredRows ==
  { MkPred(<<N(0), N(15)>>,  <<N(9), N(9)>>, <<N(2), N(40)>>),
    MkPred(<<N(10), N(30)>>, <<N(9), N(9)>>, <<N(2), N(40)>>) }

PairFailSets == { {}, {"left_up_0"} }

ExcludedChoices == { {}, {"B"} }

\* No VehicleManager has been constructed.
NoConstruction ==
  [n |-> 0, config_id |-> [kind |-> "none"], prefix |-> "",
   autogenerate |-> FALSE, result |-> "none", error |-> "", vid |-> "",
   path |-> "none",
   before |-> [cav |-> 1, platoon |-> 1, unknown |-> 1, used |-> {}]]

\* No helper method has been called directly.
NoCall == [fn |-> "none", args |-> <<>>, out |-> <<>>]

Init ==
  /\ excluded_nodes \in ExcludedChoices
  /\ sumo_cavs_ids = <<>>
  /\ carla_vmanagers = {}
  /\ trajs = <<>>
  /\ mtp_controlled_vehicles = {}
  /\ traci_veh = <<>>
  /\ x = <<>>
  /\ target_agent_ids = <<>>
  /\ predictions = <<>>
  /\ model_calls = <<>>
  /\ dispatched = <<>>
  /\ events = <<>>
  /\ outcome = "none"
  /\ entry = [trajs |-> <<>>, controlled |-> {}, seen |-> {}]
  /\ ticks = 0
  /\ fn_call = NoCall
  /\ current_cav_id = 1
  /\ current_platoon_id = 1
  /\ current_unknown_id = 1
  /\ used_ids = {}
  /\ managers = <<>>
  /\ vm_last = NoConstruction

Next ==
  make_trajs(MaxTicks, IdLists, VehStates, VmSets, PredRows, CarlaLocs, FailSets)

Spec == Init /\ [][Next]_vars

NextStore ==
  make_trajs(MaxStoreTicks, StoreIdLists, VehStates, VmSets, PredRows,
             CarlaLocs, FailSets)

SpecStore == Init /\ [][NextStore]_vars

NextDelta ==
  make_trajs(MaxDeltaTicks, DeltaIdLists, DeltaVehStates, VmSets,
             DeltaPredRows, DeltaCarlaLocs, DeltaFailSets)

SpecDelta == Init /\ [][NextDelta]_vars

NextPair ==
  make_trajs(MaxPairTicks, PairIdLists, PairVehStates, VmSets, PairPredRows,
             CarlaLocs, PairFailSets)

SpecPair == Init /\ [][NextPair]_vars

---------------------------------------------------------------------------
(* Direct calls of the helper methods, on their own arguments *)

engine_vars ==
  <<excluded_nodes, sumo_cavs_ids, carla_vmanagers, trajs,
    mtp_controlled_vehicles, traci_veh, x, target_agent_ids, predictions,
    model_calls, dispatched, events, outcome, entry, ticks>>

\* Vehicle ids: every pair of tokens, well formed or not, and ids with fewer
\* or more tokens.
FnTokens == {"left", "right", "up", "down", "", "north"}
FnIds ==
  {o \o "_" \o d \o "_0" : o \in FnTokens, d \in FnTokens}
    \cup {"left", "", "cav-1", "left_up", "left_up_0_7"}

\* Query positions; (20, 0) is as far from the first as from the second
\* sample of route left_down.
FnPositions ==
  { <<N(30), N(0)>>, <<N(30), N(40)>>, <<N(190), N(0)>>, <<N(20), N(0)>> }

FnIntentions == {"left", "straight", "right", "null", "raise", "", "Left"}

\* State rows <<x, y, speed, heading, one-hot>> and arrays of rank 0 to 3.
FnRows ==
  { <<px, py, 5, yaw>> \o oh :
      px \in {-3, 30}, py \in {0, 40}, yaw \in 0..3,
      oh \in {<<1, 0, 0>>, <<0, 0, 1>>} }
FnBatchRows ==
  { <<30, 40, 5, 0, 1, 0, 0>>, <<-3, 0, 5, 3, 0, 0, 1>>,
    <<30, -7, 2, 2, 0, 1, 0>> }
FnBatches ==
  {<<>>} \cup {<<r>> : r \in FnBatchRows}
         \cup {<<r, q>> : r \in FnBatchRows, q \in FnBatchRows}
FnArrays ==
  {[ndim |-> 1, data |-> r] : r \in FnRows}
    \cup {[ndim |-> 2, data |-> b] : b \in FnBatches}
    \cup {[ndim |-> 3, data |-> <<b>>] : b \in FnBatches}
    \cup {[ndim |-> 0, data |-> 5]}

\* Stores of one or two vehicles with one or two entries each; (-39, -52) is
\* at exactly INCLUSION_RADIUS from the origin.
FnEntries ==
  { <<p[1], p[2], 5, 1, 90, it>> :
      p \in {<<30, 0>>, <<25, 60>>, <<-39, -52>>, <<64, 0>>},
      it \in {"left", "straight", "right"} }
FnStores ==
  {<<>>}
    \cup {<<[id |-> "left_up_0", traj |-> <<e>>]>> : e \in FnEntries}
    \cup {<<[id |-> "left_up_0", traj |-> <<e, <<70, 0, 5, 1, 90, e[6]>> >>]>> :
            e \in FnEntries}
    \cup {<<[id |-> "left_up_0", traj |-> <<e>>],
            [id |-> "cav-1", traj |-> <<f>>]>> :
            e \in FnEntries, f \in FnEntries}

call_get_intention_from_vehicle_id ==
  \E vehicle_id \in FnIds :
  \E vms \in {{}, {vehicle_id}} :
    /\ fn_call' = [fn |-> "get_intention_from_vehicle_id",
                   args |-> [vms |-> vms, vehicle_id |-> vehicle_id],
                   out |-> get_intention_from_vehicle_id(vms, vehicle_id)]
    /\ UNCHANGED <<engine_vars, vm_vars>>

call_get_yaw ==
  \E vehicle_id \in FnIds, pos \in FnPositions :
  \E vms \in {{}, {vehicle_id}} :
    /\ fn_call' = [fn |-> "get_yaw",
                   args |-> [vms |-> vms, vehicle_id |-> vehicle_id,
                             pos |-> pos],
                   out |-> get_yaw(vms, vehicle_id, pos)]
    /\ UNCHANGED <<engine_vars, vm_vars>>

call_get_intention_vector ==
  \E intention \in FnIntentions :
    /\ fn_call' = [fn |-> "get_intention_vector",
                   args |-> [intention |-> intention],
                   out |-> get_intention_vector(intention)]
    /\ UNCHANGED <<engine_vars, vm_vars>>

call_transform_sumo2carla ==
  \E states \in FnArrays :
    /\ fn_call' = [fn |-> "transform_sumo2carla",
                   args |-> states,
                   out |-> transform_sumo2carla(states.ndim, states.data)]
    /\ UNCHANGED <<engine_vars, vm_vars>>

\* Headings in quarter turns and local deltas for the rotation.
FnYaws == -4..4
FnDeltas ==
  { <<N(0), N(7)>>, <<N(3), N(4)>>, <<N(-2), N(5)>>,
    <<FORWARD_FLOOR, LATERAL_FLOOR>> }

call_rotation_matrix_back ==
  \E yaw \in FnYaws, local_delta \in FnDeltas :
    /\ fn_call' = [fn |-> "rotation_matrix_back",
                   args |-> [yaw |-> yaw, local_delta |-> local_delta],
                   out |-> [rotation |-> rotation_matrix_back(yaw),
                            global |-> MatVec(rotation_matrix_back(yaw),
                                              local_delta)]]
    /\ UNCHANGED <<engine_vars, vm_vars>>

call_encoding_scenario_features ==
  \E store \in FnStores :
    /\ fn_call' = [fn |-> "encoding_scenario_features",
                   args |-> [trajs |-> store],
                   out |-> encoding_scenario_features(store)]
    /\ UNCHANGED <<engine_vars, vm_vars>>

NextFn ==
  \/ call_get_intention_from_vehicle_id
  \/ call_get_yaw
  \/ call_get_intention_vector
  \/ call_transform_sumo2carla
  \/ call_rotation_matrix_back
  \/ call_encoding_scenario_features

\* The helper methods do not read the excluded nodes.
InitFn == Init /\ excluded_nodes = {}

SpecFn == InitFn /\ [][NextFn]_vars

---------------------------------------------------------------------------
(* VehicleManager: the vehicle ids *)

\* self.prefix
effective_prefix(prefix) ==
  IF prefix \in {"cav", "platoon"} THEN prefix ELSE "unknown"

\* The value of a string of decimal digits, -1 if it is empty or has another
\* character.
DigitOf(c) ==
  CASE c = "0" -> 0 [] c = "1" -> 1 [] c = "2" -> 2 [] c = "3" -> 3
    [] c = "4" -> 4 [] c = "5" -> 5 [] c = "6" -> 6 [] c = "7" -> 7
    [] c = "8" -> 8 [] c = "9" -> 9 [] OTHER -> -1
RECURSIVE digits_value(_, _, _)
digits_value(str, i, acc) ==
  IF Len(str) = 0 THEN -1
  ELSE IF i > Len(str) THEN acc
  ELSE IF DigitOf(SubSeq(str, i, i)) < 0 THEN -1
  ELSE digits_value(str, i + 1, acc * 10 + DigitOf(SubSeq(str, i, i)))

\* int(config_id) on what a YAML file can hold: an integer as it is, a bool
\* as 0 or 1, a float num/den truncated towards zero (OverflowError for an
\* infinity), a string with an optional sign and decimal digits parsed
\* (ValueError otherwise; the strings tried have no blanks or underscores),
\* TypeError for a list.
int_of(config_id) ==
  CASE config_id.kind = "int" -> [raised |-> "", value |-> config_id.value]
    [] config_id.kind = "bool" ->
         [raised |-> "", value |-> IF config_id.value THEN 1 ELSE 0]
    [] config_id.kind = "float" ->
         [raised |-> "",
          value |-> IF config_id.num >= 0
                      THEN config_id.num \div config_id.den
                      ELSE -((-config_id.num) \div config_id.den)]
    [] config_id.kind = "inf" -> [raised |-> "OverflowError", value |-> 0]
    [] config_id.kind = "str" ->
         LET str == config_id.value
             signed == Len(str) > 0 /\ SubSeq(str, 1, 1) \in {"-", "+"}
             body == IF signed THEN SubSeq(str, 2, Len(str)) ELSE str
             v == digits_value(body, 1, 0)
         IN  IF v < 0 THEN [raised |-> "ValueError", value |-> 0]
             ELSE [raised |-> "",
                   value |-> IF signed /\ SubSeq(str, 1, 1) = "-"
                               THEN -v ELSE v]
    [] OTHER -> [raised |-> "TypeError", value |-> 0]

\* f"{prefix}-{number}"
vid_of(prefix, number) == prefix \o "-" \o ToString(number)

\* Faulty variant: the first candidate is taken, used or not.
generate_first_candidate(prefix, cav, platoon, unknown, used) ==
  IF prefix = "cav"
    THEN [vid |-> vid_of("cav", cav), cav |-> cav + 1, platoon |-> platoon,
          unknown |-> unknown, used |-> used \cup {vid_of("cav", cav)}]
  ELSE IF prefix = "platoon"
    THEN [vid |-> vid_of("platoon", platoon), cav |-> cav,
          platoon |-> platoon + 1, unknown |-> unknown,
          used |-> used \cup {vid_of("platoon", platoon)}]
  ELSE [vid |-> vid_of("unknown", unknown), cav |-> cav, platoon |-> platoon,
        unknown |-> unknown + 1,
        used |-> used \cup {vid_of("unknown", unknown)}]

\* __generate_unique_vehicle_id: the loop, one iteration per call; gives the
\* id and the class attributes it leaves.
RECURSIVE generate_unique_vehicle_id(_, _, _, _, _)
generate_unique_vehicle_id(prefix, cav, platoon, unknown, used) ==
  LET candidate == IF prefix = "cav" THEN vid_of("cav", cav)
                   ELSE IF prefix = "platoon" THEN vid_of("platoon", platoon)
                   ELSE vid_of("unknown", unknown)
      cav1 == IF prefix = "cav" THEN cav + 1 ELSE cav
      platoon1 == IF prefix = "platoon" THEN platoon + 1 ELSE platoon
      unknown1 == IF prefix \notin {"cav", "platoon"}
                    THEN unknown + 1 ELSE unknown
  IN  IF candidate \notin used
        THEN [vid |-> candidate, cav |-> cav1, platoon |-> platoon1,
              unknown |-> unknown1, used |-> used \cup {candidate}]
        ELSE generate_unique_vehicle_id(prefix, cav1, platoon1, unknown1, used)

\* The id part of VehicleManager.__init__: what it does for config_id (kind
\* "none" for a config without id): [result, error, path, vid, cav, platoon,
\* unknown, used].
assign_vid(config_id, prefix, autogenerate) ==
  LET self_prefix == effective_prefix(prefix)
      generated == generate_unique_vehicle_id(self_prefix, current_cav_id,
                     current_platoon_id, current_unknown_id, used_ids)
      Generated == [result |-> "constructed", error |-> "",
                    path |-> "generated", vid |-> generated.vid,
                    cav |-> generated.cav, platoon |-> generated.platoon,
                    unknown |-> generated.unknown, used |-> generated.used]
      Raised(error) == [result |-> "raised", error |-> error,
                        path |-> "none", vid |-> "", cav |-> current_cav_id,
                        platoon |-> current_platoon_id,
                        unknown |-> current_unknown_id, used |-> used_ids]
  IN
  IF config_id.kind # "none"
    THEN
      LET id_int == int_of(config_id)
          candidate == vid_of(self_prefix, id_int.value)
          error == IF id_int.raised # "" THEN id_int.raised
                   ELSE IF id_int.value < 0 THEN "ValueError"
                   ELSE IF candidate \in used_ids THEN "ValueError"
                   ELSE ""
      IN  IF error = ""
            THEN [result |-> "constructed", error |-> "",
                  path |-> "configured", vid |-> candidate,
                  cav |-> current_cav_id, platoon |-> current_platoon_id,
                  unknown |-> current_unknown_id,
                  used |-> used_ids \cup {candidate}]
          ELSE IF error \in {"ValueError", "TypeError"}
            THEN IF autogenerate THEN Generated ELSE Raised(error)
          ELSE Raised(error)
    ELSE IF autogenerate THEN Generated ELSE Raised("ValueError")

\* VehicleManager(...): one construction.
VehicleManager_init(ConfigIds, Prefixes) ==
  /\ vm_last.n < MaxManagers
  /\ \E config_id \in ConfigIds, prefix \in Prefixes,
        autogenerate \in BOOLEAN :
     \E r \in {assign_vid(config_id, prefix, autogenerate)} :
       /\ current_cav_id' = r.cav
       /\ current_platoon_id' = r.platoon
       /\ current_unknown_id' = r.unknown
       /\ used_ids' = r.used
       /\ managers' = IF r.result = "constructed"
                         THEN Append(managers, r.vid) ELSE managers
       /\ vm_last' = [n |-> vm_last.n + 1, config_id |-> config_id,
                      prefix |-> prefix, autogenerate |-> autogenerate,
                      result |-> r.result, error |-> r.error, vid |-> r.vid,
                      path |-> r.path,
                      before |-> [cav |-> current_cav_id,
                                  platoon |-> current_platoon_id,
                                  unknown |-> current_unknown_id,
                                  used |-> used_ids]]
       /\ UNCHANGED <<engine_vars, fn_call>>

\* The ids a scenario file can configure: none, integers, a bool, floats
\* (2.5 and -0.5), an infinity, strings and a list.
VmConfigIds ==
  { [kind |-> "none"],
    [kind |-> "int", value |-> 1],
    [kind |-> "int", value |-> -1],
    [kind |-> "bool", value |-> TRUE],
    [kind |-> "float", num |-> 5, den |-> 2],
    [kind |-> "float", num |-> -1, den |-> 2],
    [kind |-> "inf"],
    [kind |-> "str", value |-> "2"],
    [kind |-> "str", value |-> "cav"],
    [kind |-> "list"] }

VmPrefixes == {"cav", "platoon", "rsu"}

NextVm == VehicleManager_init(VmConfigIds, VmPrefixes)

SpecVm == Init /\ [][NextVm]_vars

---------------------------------------------------------------------------
(* Properties *)

Active == Range(sumo_cavs_ids)
Returned == outcome = "returned"
\* update_trajs of the last call returned (the call got to the encoder).
UpdateReturned == Len(events) >= 2

PosOf(vid) == traci_veh[vid].pos
\* Squared distance of a vehicle to its nearest control node.
DistSq(vid) ==
  LET c == get_nearest_node(PosOf(vid)).coord
  IN  (PosOf(vid)[1] - c[1]) * (PosOf(vid)[1] - c[1])
        + (PosOf(vid)[2] - c[2]) * (PosOf(vid)[2] - c[2])
NodeExcluded(vid) == get_nearest_node(PosOf(vid)).id \in excluded_nodes
InsideControl(vid) == DistSq(vid) < CONTROL_RADIUS * CONTROL_RADIUS
InsideInclusion(vid) == DistSq(vid) < INCLUSION_RADIUS * INCLUSION_RADIUS

\* The stored trajectory of vid in store t, empty when it has none.
TrajOrEmpty(t, vid) == IF vid \in TrajKeys(t) THEN TrajOf(t, vid) ELSE <<>>

\* The agents of the store whose latest entry is within the inclusion radius.
EligibleNow ==
  { trajs[i].id : i \in
      { j \in 1..Len(trajs) :
          /\ Len(trajs[j].traj) > 0
          /\ LET e == trajs[j].traj[Len(trajs[j].traj)]
             IN  e[1] * e[1] + e[2] * e[2]
                   < INCLUSION_RADIUS * INCLUSION_RADIUS } }

\* The commands issued for vid in the last call, in order of issue.
RowsOf(vid) == { i \in 1..Len(dispatched) : dispatched[i].vid = vid }
EventsAt(name) == { i \in 1..Len(events) : events[i] = name }

C2_OutsideIsReleased ==
  Returned =>
    \A vid \in entry.controlled \cap Active :
      ~InsideControl(vid) => vid \notin mtp_controlled_vehicles

\* C2 as amended: the same for the agents that are within the inclusion
\* radius of a nearest node that is not excluded.
C2_OutsideButIncludedIsReleased ==
  Returned =>
    \A vid \in entry.controlled \cap Active :
      (~InsideControl(vid) /\ InsideInclusion(vid) /\ ~NodeExcluded(vid))
        => vid \notin mtp_controlled_vehicles

C2_Witness ==
  /\ Returned
  /\ \E vid \in entry.controlled \cap Active :
       /\ ~InsideControl(vid) /\ InsideInclusion(vid) /\ ~NodeExcluded(vid)
       /\ vid \notin mtp_controlled_vehicles

\* C3: every agent removed from the controlled set got, in that call, exactly
\* one set_destination to its route end with clean and end_reset if a vehicle
\* manager hosts it and no command otherwise; and a command with end_reset is
\* only ever issued for an agent that was in the controlled set.
C3_RestoreOnRelease ==
  /\ \A vid \in entry.controlled \ mtp_controlled_vehicles :
       /\ Cardinality(RowsOf(vid)) = 1
       /\ \A i \in RowsOf(vid) :
            IF vid \in carla_vmanagers
              THEN /\ Len(dispatched[i].cmds) = 1
                   /\ dispatched[i].cmds[1].cmd = "set_destination"
                   /\ dispatched[i].cmds[1].vid = vid
                   /\ dispatched[i].cmds[1].end = end_location(vid)
                   /\ dispatched[i].cmds[1].clean
                   /\ dispatched[i].cmds[1].end_reset
              ELSE dispatched[i].cmds = <<>>
  /\ \A i \in 1..Len(dispatched) :
       \A k \in 1..Len(dispatched[i].cmds) :
         dispatched[i].cmds[k].end_reset
           => /\ dispatched[i].vid \in entry.controlled
              /\ dispatched[i].vid \notin mtp_controlled_vehicles
              /\ dispatched[i].cmds[k].vid = dispatched[i].vid

C3_Witness ==
  \E vid \in entry.controlled \ mtp_controlled_vehicles :
    /\ vid \in carla_vmanagers
    /\ \E i \in RowsOf(vid) : Len(dispatched[i].cmds) = 1

\* C4: a call that returns with no eligible agent called the predictor zero
\* times, ran no loop iteration (so issued no command) and left the
\* controlled set as it was.
C4_NoEligibleNoWork ==
  (Returned /\ EligibleNow = {}) =>
    /\ model_calls = <<>>
    /\ dispatched = <<>>
    /\ mtp_controlled_vehicles = entry.controlled

C4_Witness ==
  /\ Returned
  /\ EligibleNow = {}
  /\ Active # {}
  /\ entry.controlled # {}
  /\ mtp_controlled_vehicles = entry.controlled

\* C5: every entry of every stored trajectory carries the intention of the
\* first entry of that trajectory.
C5_IntentionFrozen ==
  \A i \in 1..Len(trajs) :
    \A k \in 1..Len(trajs[i].traj) :
      trajs[i].traj[k][6] = trajs[i].traj[1][6]

\* A trajectory that grew while its vehicle manager was no longer registered:
\* resolving the id again would not give the stored intention.
C5_Witness ==
  \E i \in 1..Len(trajs) :
    /\ Len(trajs[i].traj) >= 2
    /\ trajs[i].id \notin carla_vmanagers
    /\ trajs[i].traj[Len(trajs[i].traj)][6] = "right"

\* C6: after update_trajs the keys of the store are among the active ids; and
\* an active id that had no trajectory when the call began has at most the
\* one entry sampled in this call, with the intention resolved in this call.
C6_StoreFollowsScene ==
  UpdateReturned =>
    /\ TrajKeys(trajs) \subseteq Active
    /\ \A vid \in Active \ TrajKeys(entry.trajs) :
         /\ vid \in TrajKeys(trajs)
         /\ Len(TrajOf(trajs, vid)) <= 1
         /\ Len(TrajOf(trajs, vid)) = 1 =>
              LET e == TrajOf(trajs, vid)[1]
                  c == get_nearest_node(PosOf(vid)).coord
              IN  /\ e[1] = PosOf(vid)[1] - c[1]
                  /\ e[2] = PosOf(vid)[2] - c[2]
                  /\ e[6] = get_intention_from_vehicle_id(carla_vmanagers, vid)

\* An id that was stored in an earlier tick, then absent, and is back.
C6_Witness ==
  /\ UpdateReturned
  /\ \E vid \in (Active \cap entry.seen) \ TrajKeys(entry.trajs) :
       Len(TrajOf(trajs, vid)) = 1

\* C7: after update_trajs every active agent has a trajectory; it is the one
\* it had before (empty if none) followed by exactly one entry if its nearest
\* node is not excluded, and the one it had before if it is.
C7_AppendOnly ==
  UpdateReturned =>
    \A vid \in Active :
      /\ vid \in TrajKeys(trajs)
      /\ LET old == TrajOrEmpty(entry.trajs, vid)
             new == TrajOf(trajs, vid)
         IN  IF NodeExcluded(vid)
               THEN new = old
               ELSE /\ Len(new) = Len(old) + 1
                    /\ SubSeq(new, 1, Len(old)) = old

\* An agent with stored entries that is next to an excluded node this tick.
C7_Witness ==
  /\ UpdateReturned
  /\ \E vid \in Active :
       /\ NodeExcluded(vid)
       /\ Len(TrajOf(trajs, vid)) >= 1
       /\ TrajOf(trajs, vid) = TrajOrEmpty(entry.trajs, vid)

\* C8: for every agent the loop controlled, the local first-step delta is the
\* pair (1e-10, 1e-8) if the lateral component of the last predicted step is
\* <= 1, and else the raw forward component with the lateral component
\* raised to at least 1e-8.
C8_DegenerateGuard ==
  \A i \in 1..Len(dispatched) :
    dispatched[i].branch = "control" =>
      LET p == predictions[dispatched[i].idx]
          first == p[1]
          last == p[Len(p)]
          used == dispatched[i].local_delta
      IN  IF NLe(last[2], <<1, 0>>)
            THEN used = << <<0, 1>>, <<0, 100>> >>
            ELSE /\ used[1] = first[1]
                 /\ used[2] = IF NLt(first[2], <<0, 100>>)
                                THEN <<0, 100>> ELSE first[2]

\* The guard fires on a last lateral value of exactly 1 and replaces a raw
\* first step that is not the sentinel pair.
C8_Witness ==
  \E i \in 1..Len(dispatched) :
    /\ dispatched[i].branch = "control"
    /\ predictions[dispatched[i].idx][PRED_STEPS][2] = <<1, 0>>
    /\ predictions[dispatched[i].idx][1] # << <<0, 1>>, <<0, 100>> >>
    /\ dispatched[i].local_delta = << <<0, 1>>, <<0, 100>> >>

\* C9: for a controlled agent hosted by a vehicle manager, a component of the
\* global delta of magnitude <= 10 is replaced by one of magnitude 20 and the
\* same sign, a larger one is kept, and so every component used for the next
\* location has magnitude above 10.
C9_DeadbandPush ==
  \A i \in 1..Len(dispatched) :
    (dispatched[i].branch = "control" /\ dispatched[i].vid \in carla_vmanagers)
      => \A c \in 1..2 :
           LET g == dispatched[i].global_delta[c]
               u == dispatched[i].used_delta[c]
           IN  /\ NLe(NAbs(g), <<10, 0>>)
                    => (NAbs(u) = <<20, 0>> /\ NSign(u) = NSign(g))
               /\ NLt(<<10, 0>>, NAbs(g)) => u = g
               /\ NLt(<<10, 0>>, NAbs(u))

\* C10: a call goes update_trajs, encoder, predictor, loop; the predictor is
\* called at most once, exactly once when some agent is eligible, and every
\* loop iteration (the only place commands are issued) comes after it.
C10_PhaseOrder ==
  outcome # "none" =>
    /\ EventsAt("update_trajs") = {1}
    /\ EventsAt("encoding_scenario_features") \subseteq {2}
    /\ Cardinality(EventsAt("model")) <= 1
    /\ Cardinality(EventsAt("model")) = Len(model_calls)
    /\ (Returned /\ EligibleNow # {}) => Cardinality(EventsAt("model")) = 1
    /\ \A m \in EventsAt("model") :
         /\ m > 2
         /\ 2 \in EventsAt("encoding_scenario_features")
         /\ \A r \in EventsAt("row") : m < r
    /\ EventsAt("row") # {} => EventsAt("model") # {}
    /\ Cardinality(EventsAt("row")) = Len(dispatched)

C10_Witness ==
  /\ Returned
  /\ Len(model_calls) = 1
  /\ \E i \in 1..Len(dispatched) : dispatched[i].cmds # <<>>
  /\ Len(dispatched) = 2

\* The one-hot code of an intention, as the documentation gives it.
OneHot(intention) ==
  CASE intention = "left" -> <<1, 0, 0>>
    [] intention = "straight" -> <<0, 1, 0>>
    [] intention = "right" -> <<0, 0, 1>>
    [] OTHER -> <<0, 0, 0>>

\* The feature row of vid in the CARLA frame, from its latest stored entry.
FeatureOf(vid) ==
  LET e == TrajOf(trajs, vid)[Len(TrajOf(trajs, vid))]
  IN  <<e[1], -e[2], e[3], e[4] - 1>> \o OneHot(e[6])

LoopRan == Len(events) > 2

\* C11: the id list has as many elements as the feature matrix has rows; row
\* k of the matrix is the feature row of agent target_agent_ids[k]; the k-th
\* loop iteration is for that agent, and its deltas come from predictions[k]
\* and the heading in row k.
C11_RowOrder ==
  /\ Len(x) = Len(target_agent_ids)
  /\ LoopRan =>
       /\ Len(predictions) = Len(target_agent_ids)
       /\ Len(dispatched) = Len(target_agent_ids)
       /\ \A k \in 1..Len(target_agent_ids) :
            /\ \A j \in 1..Len(target_agent_ids) :
                 target_agent_ids[j] = target_agent_ids[k] => j = k
            /\ x[k] = FeatureOf(target_agent_ids[k])
            /\ dispatched[k].idx = k
            /\ dispatched[k].vid = target_agent_ids[k]
            /\ dispatched[k].branch = "control" =>
                 /\ dispatched[k].local_delta =
                      clamp_first_step(predictions[k][1],
                                       predictions[k][PRED_STEPS])
                 /\ dispatched[k].global_delta =
                      global_delta_of(x[k][4], dispatched[k].local_delta)

\* Two agents under control in one tick, with different predictions and
\* different headings.
C11_Witness ==
  /\ Len(dispatched) = 2
  /\ dispatched[1].branch = "control"
  /\ dispatched[2].branch = "control"
  /\ predictions[1] # predictions[2]
  /\ x[1][4] # x[2][4]
  /\ dispatched[1].global_delta # dispatched[2].global_delta

\* C12 as stated: each input row of the predictor is rel_x, rel_y, heading
\* and the intention one-hot of the converted feature row.
C12_HeadingInInput ==
  \A c \in 1..Len(model_calls) :
    \A k \in 1..Len(model_calls[c].input) :
      model_calls[c].input[k] =
        <<x[k][1], x[k][2], x[k][4], x[k][5], x[k][6], x[k][7]>>

\* C12 as amended: each input row of the predictor is rel_x, rel_y (after
\* the frame conversion) and the intention one-hot: five columns, without
\* the heading and without the speed.
C12_InputColumns ==
  \A c \in 1..Len(model_calls) :
    /\ Len(model_calls[c].input) = Len(target_agent_ids)
    /\ \A k \in 1..Len(target_agent_ids) :
         LET f == FeatureOf(target_agent_ids[k])
         IN  model_calls[c].input[k] = <<f[1], f[2], f[5], f[6], f[7]>>

\* A call on two rows whose headings and speeds differ while the rest is the
\* same: the input rows are equal.
C12_Witness ==
  /\ Len(model_calls) = 1
  /\ Len(x) = 2
  /\ x[1][4] # x[2][4]
  /\ x[1][3] # x[2][3]
  /\ Len(model_calls[1].input[1]) = 5
  /\ model_calls[1].input[1][1] = model_calls[1].input[2][1]

\* The ids of the store whose latest entry is within the inclusion radius,
\* in store order.
RECURSIVE QualifyingIds(_)
QualifyingIds(i) ==
  IF i = 0 THEN <<>>
  ELSE IF trajs[i].id \in EligibleNow
    THEN Append(QualifyingIds(i - 1), trajs[i].id)
    ELSE QualifyingIds(i - 1)

\* C13: whenever the encoder is called it returns; the ids it returns are
\* those of the store whose latest entry is strictly within 65 of the
\* origin, one 7-column row each; none qualifying gives no row and no id.
C13_EncoderFilter ==
  UpdateReturned =>
    /\ ~(outcome = "raised" /\ Len(events) = 2)
    /\ target_agent_ids = QualifyingIds(Len(trajs))
    /\ Len(x) = Len(target_agent_ids)
    /\ \A k \in 1..Len(x) : Len(x[k]) = 7

\* C14: a moveToXY that raised is the only command of its agent in the call;
\* the loop went on over every later row, the call returned and the agent is
\* in the controlled set.
C14_FailureIsCaught ==
  \A i \in 1..Len(dispatched) :
    (\E c \in 1..Len(dispatched[i].cmds) : ~dispatched[i].cmds[c].ok) =>
      /\ Returned
      /\ Len(dispatched[i].cmds) = 1
      /\ dispatched[i].cmds[1].cmd = "moveToXY"
      /\ Cardinality(RowsOf(dispatched[i].vid)) = 1
      /\ dispatched[i].vid \in mtp_controlled_vehicles
      /\ Len(dispatched) = Len(target_agent_ids)
      /\ \A j \in (i + 1)..Len(target_agent_ids) :
           /\ dispatched[j].vid = target_agent_ids[j]
           /\ (InsideControl(target_agent_ids[j])
                 /\ ~NodeExcluded(target_agent_ids[j]))
                => /\ dispatched[j].branch = "control"
                   /\ dispatched[j].cmds # <<>>
                   /\ target_agent_ids[j] \in mtp_controlled_vehicles

\* The first agent's moveToXY raised and the second was still commanded.
C14_Witness ==
  /\ Len(dispatched) = 2
  /\ dispatched[1].cmds # <<>>
  /\ ~dispatched[1].cmds[1].ok
  /\ dispatched[2].branch = "control"
  /\ dispatched[2].cmds # <<>>

\* C15: an active agent whose nearest node is excluded gets no command in the
\* call and is not added to the controlled set by it.
C15_ExcludedUntouched ==
  \A vid \in Active :
    NodeExcluded(vid) =>
      /\ \A i \in RowsOf(vid) : dispatched[i].cmds = <<>>
      /\ vid \in mtp_controlled_vehicles => vid \in entry.controlled

\* An agent still in the feature matrix (through an older entry) that is next
\* to an excluded node now, close enough to be controlled otherwise.
C15_Witness ==
  \E vid \in Active :
    /\ NodeExcluded(vid)
    /\ InsideControl(vid)
    /\ RowsOf(vid) # {}

ApproachSet == {"left", "up", "right", "down"}
\* The quarter turn left -> up -> right -> down -> left, and the opposite.
QuarterTurn(a) ==
  CASE a = "left" -> "up" [] a = "up" -> "right"
    [] a = "right" -> "down" [] OTHER -> "left"
Opposite(a) == QuarterTurn(QuarterTurn(a))
PairId(o, d) == o \o "_" \o d \o "_0"

ResolverCalled == fn_call.fn = "get_intention_from_vehicle_id"
HostedCall == fn_call.args.vehicle_id \in fn_call.args.vms

\* C16: for an id made of two distinct approaches the resolver returns
\* "straight" exactly for the opposite approach, "left" for the rotations of
\* (left, up) and "right" for the rotations of (left, down); the result is
\* that of the pair turned by a quarter turn.
C16_TurnTable ==
  (ResolverCalled /\ ~HostedCall) =>
    \A o \in ApproachSet, d \in ApproachSet :
      (o # d /\ fn_call.args.vehicle_id = PairId(o, d)) =>
        /\ fn_call.out \in {"left", "straight", "right"}
        /\ fn_call.out = "straight" <=> d = Opposite(o)
        /\ d = QuarterTurn(o) => fn_call.out = "left"
        /\ o = QuarterTurn(d) => fn_call.out = "right"
        /\ fn_call.out =
             get_intention_from_vehicle_id(
               {}, PairId(QuarterTurn(o), QuarterTurn(d)))

C16_Witness ==
  /\ ResolverCalled /\ ~HostedCall
  /\ fn_call.args.vehicle_id = PairId("down", "left")
  /\ fn_call.out = "left"

\* C17: for an id that is not hosted and whose first two tokens are not two
\* distinct approaches the resolver raises; whatever the id, it returns
\* "left", "straight" or "right" or raises.
C17_UnresolvedRaises ==
  ResolverCalled =>
    /\ fn_call.out \in {"left", "straight", "right", "raise"}
    /\ ~HostedCall =>
         LET toks == split(fn_call.args.vehicle_id)
             wellFormed == /\ Len(toks) >= 2
                           /\ toks[1] \in ApproachSet
                           /\ toks[2] \in ApproachSet
                           /\ toks[1] # toks[2]
         IN  ~wellFormed => fn_call.out = "raise"

\* Origin equal to destination.
C17_Witness ==
  /\ ResolverCalled /\ ~HostedCall
  /\ fn_call.args.vehicle_id = PairId("left", "left")
  /\ fn_call.out = "raise"

\* C18: for an id hosted by a registered vehicle manager the resolver returns
\* "right", the intention of (left, down), and get_yaw returns what it
\* returns at that position for an id of route left_down, whatever the id.
C18_HostedDefaults ==
  /\ (ResolverCalled /\ HostedCall) => fn_call.out = "right"
  /\ (fn_call.fn = "get_yaw" /\ HostedCall) =>
       fn_call.out = get_yaw({}, "left_down_0", fn_call.args.pos)

\* A hosted id whose own text names another route of the table, at a
\* position where the two routes differ.
C18_Witness ==
  /\ fn_call.fn = "get_yaw" /\ HostedCall
  /\ fn_call.args.vehicle_id = PairId("left", "up")
  /\ fn_call.out # get_yaw({}, fn_call.args.vehicle_id, fn_call.args.pos)

\* C19: get_intention_vector gives <<1,0,0>> for "left", <<0,1,0>> for
\* "straight", <<0,0,1>> for "right", zeros for "null" and raises otherwise;
\* the last three columns of every feature row are that vector for the
\* intention of the latest entry of the row's agent.
C19_OneHot ==
  /\ fn_call.fn = "get_intention_vector" =>
       fn_call.out =
         CASE fn_call.args.intention = "left" -> <<1, 0, 0>>
           [] fn_call.args.intention = "straight" -> <<0, 1, 0>>
           [] fn_call.args.intention = "right" -> <<0, 0, 1>>
           [] fn_call.args.intention = "null" -> <<0, 0, 0>>
           [] OTHER -> <<>>
  /\ fn_call.fn = "encoding_scenario_features" =>
       \A k \in 1..Len(fn_call.out.x) :
         LET tr == TrajOf(fn_call.args.trajs, fn_call.out.ids[k])
         IN  SubSeq(fn_call.out.x[k], 5, 7) = OneHot(tr[Len(tr)][6])

C19_Witness ==
  /\ fn_call.fn = "encoding_scenario_features"
  /\ Len(fn_call.out.x) = 2
  /\ SubSeq(fn_call.out.x[1], 5, 7) = <<0, 1, 0>>
  /\ SubSeq(fn_call.out.x[2], 5, 7) = <<0, 0, 1>>

\* A state row after the conversion: y negated, heading less a quarter turn,
\* everything else as before.
Converted(before, after) ==
  /\ Len(after) = Len(before)
  /\ \A c \in 1..Len(before) :
       after[c] = IF c = 2 THEN -before[c]
                  ELSE IF c = 4 THEN before[c] - 1
                  ELSE before[c]

\* C20: transform_sumo2carla converts a rank-1 state and every row of a
\* rank-2 batch; an array of another rank raises and is left as it was.
C20_FrameConversion ==
  fn_call.fn = "transform_sumo2carla" =>
    IF fn_call.args.ndim = 1
      THEN /\ ~fn_call.out.raised
           /\ Converted(fn_call.args.data, fn_call.out.data)
    ELSE IF fn_call.args.ndim = 2
      THEN /\ ~fn_call.out.raised
           /\ Len(fn_call.out.data) = Len(fn_call.args.data)
           /\ \A r \in 1..Len(fn_call.args.data) :
                Converted(fn_call.args.data[r], fn_call.out.data[r])
    ELSE /\ fn_call.out.raised
         /\ fn_call.out.data = fn_call.args.data

C20_Witness ==
  /\ fn_call.fn = "transform_sumo2carla"
  /\ fn_call.args.ndim = 2
  /\ Len(fn_call.args.data) = 2
  /\ fn_call.args.data[1][2] # 0
  /\ fn_call.out.data[1][2] = -fn_call.args.data[1][2]

\* The vector (a, b) turned counter-clockwise by k quarter turns.
Turned(k, v) ==
  CASE k % 4 = 0 -> v
    [] k % 4 = 1 -> <<NNeg(v[2]), v[1]>>
    [] k % 4 = 2 -> <<NNeg(v[1]), NNeg(v[2])>>
    [] OTHER -> <<v[2], NNeg(v[1])>>

\* C21: rotation_matrix_back(yaw) turns a local delta by yaw less a quarter
\* turn; with yaw = 0 the delta (0, d) becomes (d, 0).
C21_RotationOffset ==
  fn_call.fn = "rotation_matrix_back" =>
    /\ fn_call.out.global =
         Turned(fn_call.args.yaw - 1, fn_call.args.local_delta)
    /\ (fn_call.args.yaw = 0 /\ fn_call.args.local_delta[1] = <<0, 0>>)
         => fn_call.out.global = <<fn_call.args.local_delta[2], <<0, 0>> >>

C21_Witness ==
  /\ fn_call.fn = "rotation_matrix_back"
  /\ fn_call.args.yaw = 0
  /\ fn_call.args.local_delta = << <<0, 0>>, <<7, 0>> >>
  /\ fn_call.out.global = << <<7, 0>>, <<0, 0>> >>

\* The heading of the first of the samples of route nearest to pos, 0 for a
\* route that the table does not have.
NearestHeading(route, pos, heading) ==
  IF route \notin yaw_dict_routes THEN heading = 0
  ELSE \E k \in 1..Len(yaw_dict(route)) :
         LET yaws == yaw_dict(route)
             d(i) == SqDistNum(pos, <<N(yaws[i][1]), N(yaws[i][2])>>)
         IN  /\ heading = yaws[k][3]
             /\ \A j \in 1..Len(yaws) : ~Sq3Lt(d(j), d(k))
             /\ \A j \in 1..(k - 1) : Sq3Lt(d(k), d(j))

\* The id without its last underscore-separated token.
RouteOf(vehicle_id) ==
  join(SubSeq(split(vehicle_id), 1, Len(split(vehicle_id)) - 1))

\* C22 as stated: get_yaw returns the heading of the nearest sample (the
\* first on ties) of the route named by the id without its last token, and 0
\* when the table has no such route.
C22_RouteFromId ==
  fn_call.fn = "get_yaw" =>
    NearestHeading(RouteOf(fn_call.args.vehicle_id), fn_call.args.pos,
                   fn_call.out)

\* C22 as amended: that holds for an id that no registered vehicle manager
\* hosts; for a hosted id the route is left_down.
C22_RouteFromIdUnlessHosted ==
  fn_call.fn = "get_yaw" =>
    NearestHeading(IF HostedCall THEN "left_down"
                   ELSE RouteOf(fn_call.args.vehicle_id),
                   fn_call.args.pos, fn_call.out)

\* A position as far from the first as from the second sample of the route.
C22_Witness ==
  /\ fn_call.fn = "get_yaw" /\ ~HostedCall
  /\ fn_call.args.vehicle_id = PairId("left", "down")
  /\ fn_call.args.pos = << <<20, 0>>, <<0, 0>> >>
  /\ fn_call.out = 180

\* C23: after any sequence of VehicleManager constructions no two constructed
\* managers have the same vid, every assigned vid is in used_ids, and the id
\* the generation loop ends with was not in used_ids before the construction.
C23_UniqueVids ==
  /\ \A i, j \in 1..Len(managers) : i # j => managers[i] # managers[j]
  /\ \A i \in 1..Len(managers) : managers[i] \in used_ids
  /\ vm_last.path = "generated" =>
       /\ vm_last.vid \notin vm_last.before.used
       /\ vm_last.vid \in used_ids

\* The loop passes over cav-1, taken by a configured id, and a second manager
\* gets cav-2.
C23_Witness ==
  /\ Len(managers) >= 2
  /\ vm_last.path = "generated"
  /\ vm_last.before.cav = 1
  /\ "cav-1" \in vm_last.before.used
  /\ vm_last.vid = "cav-2"
  /\ current_cav_id = 3

\* The configured id stands for an integer: an integer, a bool, or a string
\* of decimal digits with an optional sign.
DenotesInteger(config_id) ==
  \/ config_id.kind \in {"int", "bool"}
  \/ config_id.kind = "str" /\ int_of(config_id).raised = ""

\* C24 as stated: a configured non-negative integer id not yet used under the
\* effective prefix is assigned as '<prefix>-<id>'; a missing, non-integer,
\* negative or used id gives a generated id when autogenerate_id_on_failure
\* is true and otherwise raises ValueError or TypeError, used_ids and the
\* three counters staying as they were.
C24_IdAssignment ==
  vm_last.n > 0 =>
    LET config_id == vm_last.config_id
        prefix == IF vm_last.prefix \in {"cav", "platoon"}
                    THEN vm_last.prefix ELSE "unknown"
        usable == /\ DenotesInteger(config_id)
                  /\ int_of(config_id).value >= 0
                  /\ vid_of(prefix, int_of(config_id).value)
                       \notin vm_last.before.used
    IN  IF usable
          THEN /\ vm_last.result = "constructed"
               /\ vm_last.vid = vid_of(prefix, int_of(config_id).value)
               /\ vm_last.path = "configured"
        ELSE IF vm_last.autogenerate
          THEN /\ vm_last.result = "constructed"
               /\ vm_last.path = "generated"
        ELSE /\ vm_last.result = "raised"
             /\ vm_last.error \in {"ValueError", "TypeError"}
             /\ used_ids = vm_last.before.used
             /\ current_cav_id = vm_last.before.cav
             /\ current_platoon_id = vm_last.before.platoon
             /\ current_unknown_id = vm_last.before.unknown

\* C25: after every update_trajs call every trajectory of the store has at
\* least one entry, and the encoder call that follows does not fail.
C25_NoEmptyTrajectory ==
  UpdateReturned =>
    /\ \A i \in 1..Len(trajs) : Len(trajs[i].traj) >= 1
    /\ ~(outcome = "raised" /\ Len(events) = 2)

\* C26: when make_trajs returns, every controlled agent is in the trajectory
\* store and in the active-id list of the tick, and a vehicle-manager-hosted
\* agent that was controlled at the call and is no longer in the store got
\* its restore command in the call.
C26_ControlledInStore ==
  Returned =>
    /\ mtp_controlled_vehicles \subseteq TrajKeys(trajs)
    /\ mtp_controlled_vehicles \subseteq Active
    /\ \A vid \in entry.controlled :
         (is_carla_id(carla_vmanagers, vid) /\ vid \notin TrajKeys(trajs))
           => \E i \in RowsOf(vid) : dispatched[i].branch = "restore"

\* The agents the last call has to do with: active, controlled before or
\* after it, or named in a row.
Concerned ==
  Active \cup entry.controlled \cup mtp_controlled_vehicles
    \cup { dispatched[i].vid : i \in 1..Len(dispatched) }

\* C27: an agent that the encoder does not return in a tick (its latest entry
\* is not within the inclusion radius, or it is no longer in the store) is in
\* the controlled set after the call exactly if it was before the call, and
\* the call has no row and no command for it.
C27_OnlyEligibleChange ==
  ticks > 0 =>
    \A vid \in Concerned \ EligibleNow :
      /\ (vid \in mtp_controlled_vehicles) <=> (vid \in entry.controlled)
      /\ RowsOf(vid) = {}

\* A controlled agent at the inclusion radius stays controlled while the
\* call works on another agent.
C27_Witness ==
  /\ Returned
  /\ Len(dispatched) > 0
  /\ \E vid \in (entry.controlled \cap Active) \ EligibleNow :
       /\ ~InsideControl(vid)
       /\ vid \in mtp_controlled_vehicles

\* The rows of the last call in which the loop controlled an agent and issued
\* a command, and those among them whose degenerate-value guard fired.
ControlRows ==
  { i \in 1..Len(dispatched) :
      dispatched[i].branch = "control" /\ dispatched[i].cmds # <<>> }
GuardedRows ==
  { i \in ControlRows :
      NLe(predictions[dispatched[i].idx][PRED_STEPS][2], <<1, 0>>) }
HostedRow(i) == dispatched[i].vid \in carla_vmanagers

\* The commanded location less the agent's current location, in x and y.
Displacement(i) ==
  LET cmd == dispatched[i].cmds[1]
  IN  IF cmd.cmd = "moveToXY"
        THEN << NSub(cmd.end[1], <<PosOf(dispatched[i].vid)[1], 0>>),
                NSub(cmd.end[2], <<PosOf(dispatched[i].vid)[2], 0>>) >>
        ELSE << NSub(cmd.end[1], cmd.start[1]),
                NSub(cmd.end[2], cmd.start[2]) >>
\* Magnitude at most 1e-8.
NearZero(c) == NLe(NAbs(c), <<0, 100>>)

C29_SampledThisTick ==
  LoopRan =>
    \A k \in 1..Len(target_agent_ids) :
      Len(TrajOf(trajs, target_agent_ids[k]))
        = Len(TrajOrEmpty(entry.trajs, target_agent_ids[k])) + 1

\* The first-step delta of row i turned by the heading of its feature row
\* less a quarter turn, with the sign of the second component inverted.
Rotated(i) ==
  LET t == Turned(x[dispatched[i].idx][4] - 1, dispatched[i].local_delta)
  IN  <<t[1], NNeg(t[2])>>
\* A component within the deadband of 10 replaced by 20 with its sign.
Pushed(g) ==
  [c \in 1..2 |->
     IF NLe(NAbs(g[c]), <<10, 0>>) THEN <<20 * NSign(g[c]), 0>> ELSE g[c]]
Actuations(i) ==
  { c \in 1..Len(dispatched[i].cmds) :
      dispatched[i].cmds[c].cmd \in {"set_destination", "moveToXY"} }
\* Row i has one actuation command, a set_destination of the hosting manager
\* from start to (start.x + g.x, start.y - g.y, start.z), clean and without
\* end reset.
DestinationBy(i, g) ==
  \E c \in 1..Len(dispatched[i].cmds) :
    LET cmd == dispatched[i].cmds[c] IN
    /\ Actuations(i) = {c}
    /\ cmd.cmd = "set_destination"
    /\ cmd.vid = dispatched[i].vid
    /\ cmd.end = << NAdd(cmd.start[1], g[1]), NSub(cmd.start[2], g[2]),
                    cmd.start[3] >>
    /\ cmd.clean /\ ~cmd.end_reset
\* Row i has one actuation command, a moveToXY to (pos_x + g.x, pos_y + g.y).
MovedBy(i, g) ==
  \E c \in 1..Len(dispatched[i].cmds) :
    LET cmd == dispatched[i].cmds[c]
        pos == PosOf(dispatched[i].vid)
    IN  /\ Actuations(i) = {c}
        /\ cmd.cmd = "moveToXY"
        /\ cmd.vid = dispatched[i].vid
        /\ cmd.end = << NAdd(<<pos[1], 0>>, g[1]), NAdd(<<pos[2], 0>>, g[2]) >>

\* C30 as stated: a controlled agent gets one actuation command, a hosted
\* one a set_destination and any other a moveToXY, to the location that the
\* rotated and sign-inverted first-step delta gives.
C30_OneCommandRotatedDelta ==
  \A i \in 1..Len(dispatched) :
    dispatched[i].branch = "control" =>
      IF HostedRow(i) THEN DestinationBy(i, Rotated(i))
      ELSE MovedBy(i, Rotated(i))

\* C30 as amended: for a hosted agent the delta is the rotated one after the
\* deadband push.
C30_OneCommandPushedDelta ==
  \A i \in 1..Len(dispatched) :
    dispatched[i].branch = "control" =>
      IF HostedRow(i) THEN DestinationBy(i, Pushed(Rotated(i)))
      ELSE MovedBy(i, Rotated(i))

\* A hosted agent with one component of the rotated delta inside the
\* deadband and one beyond it.
C30_Witness ==
  \E i \in ControlRows :
    /\ HostedRow(i)
    /\ \E c, d \in 1..2 :
         /\ NLe(NAbs(Rotated(i)[c]), <<10, 0>>)
         /\ NLt(<<10, 0>>, NAbs(Rotated(i)[d]))
    /\ DestinationBy(i, Pushed(Rotated(i)))
    /\ ~DestinationBy(i, Rotated(i))

\* The store as update_trajs of the last call left it.
StoreAfterUpdate ==
  update_trajs(entry.trajs, sumo_cavs_ids, traci_veh, carla_vmanagers,
               excluded_nodes).trajs

=============================================================================
